---- MODULE Spec2Model ----
(***************************************************************************)
(* Model of scripts/build_countries_snapshot.py: the Wikidata resolvers,   *)
(* build_country and main.                                                 *)
(*                                                                         *)
(* Text that the code inspects (political-system labels, headlines, trend  *)
(* queries) is a sequence of one-character strings, so that lower(),       *)
(* substring tests and splitting are computed.  Text that the code only    *)
(* copies (names, parties, dates) is an opaque string; Python's None and   *)
(* "" are both written "" where the code only tests truthiness.            *)
(* Confidence is counted in hundredths (100 = 1.0).                        *)
(***************************************************************************)
EXTENDS Integers, Sequences, FiniteSets, TLC

VARIABLES call, pc, b, out, tables, file

vars == <<call, pc, b, out, tables, file>>

\* ---------------------------------------------------------------- bounds

\* Longest list of result rows the government query returns in the model.
MaxRows == 2

\* Most sources that fail during the build of one country in a run of main.
MaxFaults == 2

\* ---------------------------------------------------------------- text

UpperToLower ==
  [A |-> "a", B |-> "b", C |-> "c", D |-> "d", E |-> "e", F |-> "f", G |-> "g",
   H |-> "h", I |-> "i", J |-> "j", K |-> "k", L |-> "l", M |-> "m", N |-> "n",
   O |-> "o", P |-> "p", Q |-> "q", R |-> "r", S |-> "s", T |-> "t", U |-> "u",
   V |-> "v", W |-> "w", X |-> "x", Y |-> "y", Z |-> "z"]

LatinLower ==
  {"a","b","c","d","e","f","g","h","i","j","k","l","m","n","o","p","q","r","s",
   "t","u","v","w","x","y","z"}

\* str.lower()
Lower(s) ==
  [k \in 1..Len(s) |-> IF s[k] \in DOMAIN UpperToLower THEN UpperToLower[s[k]] ELSE s[k]]

\* t in s
Contains(s, t) ==
  \E k \in 1..(Len(s) - Len(t) + 1) : SubSeq(s, k, k + Len(t) - 1) = t

\* ---------------------------------------------------------------- helpers

\* dict.get(k, default)
Get(d, k, default) == IF k \in DOMAIN d THEN d[k] ELSE default

WIKIDATA_ENTITY_BASE == "https://www.wikidata.org/wiki/"

\* An entity URI "http://www.wikidata.org/entity/Qn" of a result row is
\* written by its id "Qn"; BlankNode is a value that is not an http URI.
\* WikiUrl(id) is both WIKIDATA_ENTITY_BASE + qid and
\* uri.replace("http://www.wikidata.org/entity/", WIKIDATA_ENTITY_BASE).
WikiUrl(id) == [base |-> WIKIDATA_ENTITY_BASE, id |-> id]
BlankNode == "_:b0"

\* What req_json hands back: None, or the decoded JSON document.
NoResponse == [kind |-> "none"]
JsonRows(rows) == [kind |-> "json", bindings |-> rows]
\* A JSON document without results.bindings.
JsonOther == [kind |-> "other"]

\* safe_get(data, "results", "bindings", default=[])
Bindings(data) == IF data.kind = "json" THEN data.bindings ELSE <<>>

\* _wd_val(b, key) or ""   (a missing key and an empty value are both falsy)
WdStr(row, key) == IF key \in DOMAIN row THEN row[key] ELSE ""

\* field_value without the step that stores the reason.
field_value_ReasonDropped(value, status, reason, sources, extra) ==
  LET base == [status |-> status, sources |-> sources]
      withValue == IF {"date", "name", "type"} \cap DOMAIN extra # {}
                   THEN base ELSE ("value" :> value) @@ base
  IN extra @@ withValue

\* field_value(value, status=, reason=, sources=, **extra)
field_value(value, status, reason, sources, extra) ==
  LET base == [status |-> status, sources |-> sources]
      withValue == IF {"date", "name", "type"} \cap DOMAIN extra # {}
                   THEN base ELSE ("value" :> value) @@ base
      withReason == IF reason # "" THEN ("reason" :> reason) @@ withValue
                    ELSE withValue
  IN extra @@ withReason

NoExtra == <<>>

\* ---------------------------------------------------------------- Wikidata

\* get_wikidata_country_qid_by_iso2: the Q-id, or "" for None.
get_wikidata_country_qid_by_iso2(data) ==
  LET bindings == Bindings(data) IN
  IF bindings = <<>> THEN "" ELSE WdStr(bindings[1], "country")

\* The political-system label is text the code inspects: a character
\* sequence, <<>> for "".
get_political_system_single(country_qid, data) ==
  LET bindings == Bindings(data) IN
  IF bindings = <<>>
  THEN field_value(<<>>, "unknown", "no_basic_form_of_government_in_wikidata",
                   <<WikiUrl(country_qid)>>, NoExtra)
  ELSE LET row == bindings[1]
           polsys_label == IF "polsysLabel" \in DOMAIN row THEN row.polsysLabel ELSE <<>>
           polsys_uri == WdStr(row, "polsys")
           sources == IF polsys_uri # "" /\ polsys_uri # BlankNode
                      THEN <<WikiUrl(country_qid), WikiUrl(polsys_uri)>>
                      ELSE <<WikiUrl(country_qid)>>
       IN field_value(polsys_label, "ok", "", sources, NoExtra)

\* Alphabetical order of the legislative body names of the model, for sorted().
LegOrder == <<"National Assembly", "Senate">>

RECURSIVE SortedFrom(_, _)
SortedFrom(k, S) ==
  IF k > Len(LegOrder) THEN <<>>
  ELSE IF LegOrder[k] \in S THEN <<LegOrder[k]>> \o SortedFrom(k + 1, S)
  ELSE SortedFrom(k + 1, S)

\* sorted(legislatures)
Sorted(S) == SortedFrom(1, S)

GovLoopStart ==
  [hos_name |-> "", hos_party |-> "", hos_uri |-> "", hos_party_uri |-> "",
   hog_name |-> "", hog_party |-> "", hog_uri |-> "", hog_party_uri |-> "",
   legislatures |-> {}]

\* One iteration of "for b in bindings" in get_government_snapshot.  URIs
\* are kept as Q-ids here and turned into links when the leaders are built.
GovLoopBody(acc, row) ==
  LET a1 == IF acc.hos_name = ""
            THEN [acc EXCEPT !.hos_name = WdStr(row, "hosLabel"),
                             !.hos_uri = WdStr(row, "hos")]
            ELSE acc
      a2 == IF a1.hos_party = ""
            THEN [a1 EXCEPT !.hos_party = WdStr(row, "hosPartyLabel"),
                            !.hos_party_uri = WdStr(row, "hosParty")]
            ELSE a1
      a3 == IF a2.hog_name = ""
            THEN [a2 EXCEPT !.hog_name = WdStr(row, "hogLabel"),
                            !.hog_uri = WdStr(row, "hog")]
            ELSE a2
      a4 == IF a3.hog_party = ""
            THEN [a3 EXCEPT !.hog_party = WdStr(row, "hogPartyLabel"),
                            !.hog_party_uri = WdStr(row, "hogParty")]
            ELSE a3
  IN IF WdStr(row, "legLabel") # ""
     THEN [a4 EXCEPT !.legislatures = @ \cup {row.legLabel}]
     ELSE a4

RECURSIVE GovLoop(_, _, _)
GovLoop(rows, k, acc) ==
  IF k > Len(rows) THEN acc ELSE GovLoop(rows, k + 1, GovLoopBody(acc, rows[k]))

\* The "sources" list of a leader: the non-empty links, in order.
LeaderSources(country_qid, uri, party_uri) ==
  <<WikiUrl(country_qid)>>
  \o (IF uri # "" THEN <<WikiUrl(uri)>> ELSE <<>>)
  \o (IF party_uri # "" THEN <<WikiUrl(party_uri)>> ELSE <<>>)

\* The head-of-state fallback labelled with a status of its own.
ExecutiveController_Fallback(country_qid, hog_party, hos_party) ==
  IF hog_party # ""
  THEN field_value(hog_party, "ok", "", <<WikiUrl(country_qid)>>, NoExtra)
  ELSE IF hos_party # ""
  THEN field_value(hos_party, "fallback",
                   "head_of_government_party_missing_used_head_of_state_party",
                   <<WikiUrl(country_qid)>>, NoExtra)
  ELSE field_value("", "unknown", "no_party_membership_found_for_leaders",
                   <<WikiUrl(country_qid)>>, NoExtra)

\* The two parties tried in the other order.
ExecutiveController_HeadOfStateFirst(country_qid, hog_party, hos_party) ==
  IF hos_party # ""
  THEN field_value(hos_party, "computed",
                   "head_of_government_party_missing_used_head_of_state_party",
                   <<WikiUrl(country_qid)>>, NoExtra)
  ELSE IF hog_party # ""
  THEN field_value(hog_party, "ok", "", <<WikiUrl(country_qid)>>, NoExtra)
  ELSE field_value("", "unknown", "no_party_membership_found_for_leaders",
                   <<WikiUrl(country_qid)>>, NoExtra)

\* Executive controller party as a structured field.
ExecutiveController(country_qid, hog_party, hos_party) ==
  IF hog_party # ""
  THEN field_value(hog_party, "ok", "", <<WikiUrl(country_qid)>>, NoExtra)
  ELSE IF hos_party # ""
  THEN field_value(hos_party, "computed",
                   "head_of_government_party_missing_used_head_of_state_party",
                   <<WikiUrl(country_qid)>>, NoExtra)
  ELSE field_value("", "unknown", "no_party_membership_found_for_leaders",
                   <<WikiUrl(country_qid)>>, NoExtra)

get_government_snapshot(country_qid, data) ==
  LET l == GovLoop(Bindings(data), 1, GovLoopStart)
      same_person == l.hos_name # "" /\ l.hog_name # "" /\ l.hos_name = l.hog_name
      hos == IF l.hos_name # ""
             THEN <<[name |-> l.hos_name, title |-> "Head of State",
                     party |-> l.hos_party,
                     sources |-> LeaderSources(country_qid, l.hos_uri, l.hos_party_uri)]>>
             ELSE <<>>
      hog == IF l.hog_name # ""
             THEN <<[name |-> l.hog_name, title |-> "Head of Government",
                     party |-> l.hog_party,
                     sources |-> LeaderSources(country_qid, l.hog_uri, l.hog_party_uri)]>>
             ELSE <<>>
  IN [leaders |-> hos \o hog,
      leadersSamePerson |-> same_person,
      leaderNotes |-> IF same_person
                      THEN "Head of State and Head of Government are the same person."
                      ELSE "",
      executiveControllerParty |->
          ExecutiveController(country_qid, l.hog_party, l.hos_party),
      legislatureBodies |-> Sorted(l.legislatures)]

\* ---------------------------------------------------------------- elections

hard_no ==
  << <<"a","b","s","o","l","u","t","e"," ","m","o","n","a","r","c","h","y">>,
     <<"m","i","l","i","t","a","r","y"," ","d","i","c","t","a","t","o","r","s","h","i","p">>,
     <<"j","u","n","t","a">>,
     <<"o","n","e","-","p","a","r","t","y"," ","s","t","a","t","e">>,
     <<"o","n","e"," ","p","a","r","t","y"," ","s","t","a","t","e">>,
     <<"t","o","t","a","l","i","t","a","r","i","a","n">> >>

\* A case-sensitive match: lower() forgotten.
infer_no_national_elections_CaseSensitive(political_system_label) ==
  IF \E k \in 1..Len(hard_no) : Contains(political_system_label, hard_no[k])
  THEN "False" ELSE "None"

\* infer_no_national_elections_from_system: "False" or "None".
infer_no_national_elections_from_system(political_system_label) ==
  LET s == Lower(political_system_label) IN
  IF \E k \in 1..Len(hard_no) : Contains(s, hard_no[k]) THEN "False" ELSE "None"

\* A past-election check that takes any answered query for an election.
any_past_national_election_exists_Answered(data) == data.kind = "json"

\* _any_past_national_election_exists
any_past_national_election_exists(data) == Bindings(data) # <<>>

InternalElections(sources) ==
  field_value("", "unknown", "internal_elections_not_consistently_modeled_in_wikidata",
              sources, NoExtra)

\* The three returns of get_next_national_election.
UpcomingElection(sources, row) ==
  LET e_uri == WdStr(row, "e") IN
  field_value("", "ok", "",
    IF e_uri # "" THEN sources \o <<WikiUrl(e_uri)>> ELSE sources,
    [date |-> WdStr(row, "date"),
     name |-> WdStr(row, "eLabel"),
     type |-> WdStr(row, "typeLabel"),
     dateField |-> WdStr(row, "datePropLabel"),
     notes |-> "Best-effort from Wikidata upcoming election items"])

NoNationalElections(sources) ==
  field_value("", "not_applicable",
    "political_system_suggests_no_national_general_elections", sources,
    [date |-> "", name |-> "", type |-> "", dateField |-> "",
     notes |-> "No upcoming or past national election items found",
     holdsNationalGeneralElections |-> "false",
     internalElections |-> InternalElections(sources)])

NoUpcomingElectionFound(sources, has_past) ==
  field_value("", "unknown",
    "no_upcoming_national_election_item_found_in_wikidata", sources,
    [date |-> "", name |-> "", type |-> "", dateField |-> "",
     notes |-> "Some countries do not model future elections consistently",
     holdsNationalGeneralElections |-> IF has_past THEN "true" ELSE "unknown",
     internalElections |-> InternalElections(sources)])

\* The political-system heuristic consulted before the upcoming election.
get_next_national_election_HeuristicFirst(country_qid, political_system_label, upcoming, past) ==
  LET bindings == Bindings(upcoming)
      sources == <<WikiUrl(country_qid)>>
      has_past == any_past_national_election_exists(past)
      inferred == infer_no_national_elections_from_system(political_system_label)
  IN
  IF (~has_past) /\ inferred = "False" THEN NoNationalElections(sources)
  ELSE IF bindings # <<>> THEN UpcomingElection(sources, bindings[1])
  ELSE NoUpcomingElectionFound(sources, has_past)

\* get_next_national_election; upcoming and past are what the two queries
\* return, the second being sent only when the first has no row.
get_next_national_election(country_qid, political_system_label, upcoming, past) ==
  LET bindings == Bindings(upcoming)
      sources == <<WikiUrl(country_qid)>>
      has_past == any_past_national_election_exists(past)
      inferred == infer_no_national_elections_from_system(political_system_label)
  IN
  IF bindings # <<>> THEN UpcomingElection(sources, bindings[1])
  ELSE IF (~has_past) /\ inferred = "False" THEN NoNationalElections(sources)
  ELSE NoUpcomingElectionFound(sources, has_past)

\* Any past election row taken as a result, without the test of its winner.
get_last_legislative_election_winner_RowIsEnough(country_qid, data) ==
  LET bindings == Bindings(data)
      sources == <<WikiUrl(country_qid)>>
  IN
  IF bindings = <<>>
  THEN field_value("", "unknown", "no_prior_election_item_found_in_wikidata", sources,
         [electionName |-> "", electionDate |-> "",
          notes |-> "No prior election item found (Wikidata gap)."])
  ELSE field_value(WdStr(bindings[1], "winnerLabel"), "ok", "", sources,
         [electionName |-> WdStr(bindings[1], "eLabel"),
          electionDate |-> WdStr(bindings[1], "date"),
          notes |-> "Legislature control approximated from last national election winner (Wikidata P1346)."])

get_last_legislative_election_winner(country_qid, data) ==
  LET bindings == Bindings(data)
      sources == <<WikiUrl(country_qid)>>
  IN
  IF bindings = <<>>
  THEN field_value("", "unknown", "no_prior_election_item_found_in_wikidata", sources,
         [electionName |-> "", electionDate |-> "",
          notes |-> "No prior election item found (Wikidata gap)."])
  ELSE LET row == bindings[1]
           winner == WdStr(row, "winnerLabel")
           e_uri == WdStr(row, "e")
           srcs == IF e_uri # "" THEN sources \o <<WikiUrl(e_uri)>> ELSE sources
       IN
       IF winner # ""
       THEN field_value(winner, "ok", "", srcs,
              [electionName |-> WdStr(row, "eLabel"), electionDate |-> WdStr(row, "date"),
               notes |-> "Legislature control approximated from last national election winner (Wikidata P1346)."])
       ELSE field_value("", "unknown", "election_winner_missing_in_wikidata", srcs,
              [electionName |-> WdStr(row, "eLabel"), electionDate |-> WdStr(row, "date"),
               notes |-> "Found last election item but winner (P1346) is missing."])

\* ---------------------------------------------------------------- inputs

\* The Q-id the ISO2 lookup resolves to.
CountryQid == "Q212"

LblAbsoluteMonarchy == <<"A","b","s","o","l","u","t","e"," ","M","o","n","a","r","c","h","y">>
LblJunta == <<"m","i","l","i","t","a","r","y"," ","j","u","n","t","a">>
LblOneParty == <<"O","n","e","-","P","a","r","t","y"," ","S","t","a","t","e">>
LblTotalitarian == <<"t","o","t","a","l","i","t","a","r","i","a","n","i","s","m">>
LblRepublic == <<"r","e","p","u","b","l","i","c">>
LblConstMonarchy == <<"c","o","n","s","t","i","t","u","t","i","o","n","a","l"," ","m","o","n","a","r","c","h","y">>

NonCompetitiveLabels == {LblAbsoluteMonarchy, LblJunta, LblOneParty, LblTotalitarian}
Labels == NonCompetitiveLabels \cup {<<>>, LblRepublic, LblConstMonarchy}

PolsysResponses ==
  {NoResponse, JsonOther, JsonRows(<<>>), JsonRows(<<[polsys |-> "Q7270"]>>)}
  \cup {JsonRows(<<[polsys |-> "Q7270", polsysLabel |-> l]>>) : l \in Labels \ {<<>>}}
  \cup {JsonRows(<<[polsys |-> BlankNode, polsysLabel |-> LblRepublic]>>)}

UpcomingRow ==
  [e |-> "Q901", eLabel |-> "2027 general election", date |-> "2027-05-01T00:00:00Z",
   datePropLabel |-> "P585", typeLabel |-> "general election"]

UpcomingResponses ==
  {NoResponse, JsonOther, JsonRows(<<>>), JsonRows(<<UpcomingRow>>),
   JsonRows(<<[date |-> "2028-11-07T00:00:00Z", datePropLabel |-> "P580"]>>),
   JsonRows(<<[e |-> "Q902", eLabel |-> "next election"]>>)}

PastResponses == {NoResponse, JsonOther, JsonRows(<<>>), JsonRows(<<[e |-> "Q800"]>>)}

LegResponses ==
  {NoResponse, JsonOther, JsonRows(<<>>),
   JsonRows(<<[e |-> "Q800", eLabel |-> "2024 general election",
               date |-> "2024-07-04T00:00:00Z", winner |-> "Q50",
               winnerLabel |-> "Unity Party"]>>),
   JsonRows(<<[e |-> "Q800", eLabel |-> "2024 general election",
               date |-> "2024-07-04T00:00:00Z"]>>),
   JsonRows(<<[winnerLabel |-> "Unity Party"]>>)}

\* Rows of the government query: one row per combination of office holders,
\* parties and legislative bodies.
GovRowSet ==
  {[hos |-> "Q10", hosLabel |-> "Ana", hog |-> "Q11", hogLabel |-> "Ben",
    hogParty |-> "Q50", hogPartyLabel |-> "Unity Party", leg |-> "Q60", legLabel |-> "Senate"],
   [hos |-> "Q12", hosLabel |-> "Cy", hosParty |-> "Q51", hosPartyLabel |-> "Reform Party",
    hog |-> "Q11", hogLabel |-> "Ben", leg |-> "Q61", legLabel |-> "National Assembly"],
   [hos |-> "Q10", hosLabel |-> "Ana", hosParty |-> "Q50", hosPartyLabel |-> "Unity Party",
    hog |-> "Q10", hogLabel |-> "Ana", hogParty |-> "Q50", hogPartyLabel |-> "Unity Party"],
   [hos |-> "Q10", hosLabel |-> "Ana"],
   [leg |-> "Q60", legLabel |-> "Senate"]}

RECURSIVE SeqsUpTo(_, _)
SeqsUpTo(S, n) ==
  IF n = 0 THEN {<<>>}
  ELSE LET shorter == SeqsUpTo(S, n - 1)
       IN shorter \cup {Append(q, x) : q \in shorter, x \in S}

GovResponses == {NoResponse} \cup {JsonRows(rows) : rows \in SeqsUpTo(GovRowSet, MaxRows)}

QidResponses ==
  {NoResponse, JsonOther, JsonRows(<<>>), JsonRows(<<[country |-> CountryQid]>>),
   JsonRows(<<[other |-> "x"]>>)}

\* ---------------------------------------------------------------- resolver calls

\* SpecResolve: each resolver is a function of the responses it receives;
\* call records one invocation, its arguments and what it returned.
NoCall == [fn |-> "none"]

InitResolve ==
  /\ call = NoCall
  /\ pc = "idle" /\ b = <<>> /\ out = <<>> /\ tables = <<>> /\ file = <<>>

CallPoliticalSystem ==
  /\ \E d \in PolsysResponses :
       call' = [fn |-> "get_political_system_single", data |-> d,
                result |-> get_political_system_single(CountryQid, d)]
  /\ UNCHANGED <<pc, b, out, tables, file>>

CallGovernment ==
  /\ \E d \in GovResponses :
       call' = [fn |-> "get_government_snapshot", data |-> d,
                result |-> get_government_snapshot(CountryQid, d)]
  /\ UNCHANGED <<pc, b, out, tables, file>>

CallNextElection ==
  /\ \E l \in Labels, u \in UpcomingResponses, p \in PastResponses :
       call' = [fn |-> "get_next_national_election", label |-> l,
                upcoming |-> u, past |-> p,
                result |-> get_next_national_election(CountryQid, l, u, p)]
  /\ UNCHANGED <<pc, b, out, tables, file>>

CallLegWinner ==
  /\ \E d \in LegResponses :
       call' = [fn |-> "get_last_legislative_election_winner", data |-> d,
                result |-> get_last_legislative_election_winner(CountryQid, d)]
  /\ UNCHANGED <<pc, b, out, tables, file>>

NextResolve == CallPoliticalSystem \/ CallGovernment \/ CallNextElection \/ CallLegWinner

SpecResolve == InitResolve /\ [][NextResolve]_vars

\* ---------------------------------------------------------------- claims on the resolvers

IsNextElectionCall == call.fn = "get_next_national_election"

\* The upcoming-election query returned a row that carries a date.
UpcomingHasDatedRow(u) == Bindings(u) # <<>> /\ WdStr(Bindings(u)[1], "date") # ""

C4_NoMixedState ==
  /\ (call.fn = "get_political_system_single" /\ call.result.status = "ok")
        => call.result.value # <<>>
  /\ (IsNextElectionCall /\ call.result.status = "ok") => call.result.date # ""
  /\ (call.fn = "get_last_legislative_election_winner" /\ call.result.status = "ok")
        => call.result.value # ""
  /\ (call.fn = "get_government_snapshot"
        /\ call.result.executiveControllerParty.status = "ok")
        => call.result.executiveControllerParty.value # ""

\* C5: no upcoming item, no past item and a label containing a
\* non-competitive term in any letter case give status not_applicable.
C5_NonCompetitive ==
  (/\ IsNextElectionCall
   /\ Bindings(call.upcoming) = <<>>
   /\ Bindings(call.past) = <<>>
   /\ call.label \in NonCompetitiveLabels)
  => /\ call.result.status = "not_applicable"
     /\ call.result.date = ""

\* The label "Absolute Monarchy", capitalised, with both queries answering
\* zero rows.
C5_Witness ==
  /\ IsNextElectionCall
  /\ call.upcoming = JsonRows(<<>>)
  /\ call.past = JsonRows(<<>>)
  /\ call.label = LblAbsoluteMonarchy
  /\ call.result.status = "not_applicable"

\* C6 as stated: not_applicable only when both queries succeeded with zero
\* rows and the label matched; a failure marker never gives not_applicable.
C6_NotApplicableOnlyWhenDetermined ==
  (IsNextElectionCall /\ call.result.status = "not_applicable") =>
     /\ call.upcoming = JsonRows(<<>>)
     /\ call.past = JsonRows(<<>>)
     /\ call.label \in NonCompetitiveLabels

\* No upcoming row, and the non-competitive rule does not apply.
EstimateCase ==
  /\ IsNextElectionCall
  /\ Bindings(call.upcoming) = <<>>
  /\ (Bindings(call.past) # <<>> \/ call.label \notin NonCompetitiveLabels)

Cyrillic == {"u0416", "u044F"}
Arabic == {"u0639"}
Han == {"u4E2D"}
Kana == {"u306E"}
Hangul == {"uD55C"}
Latin == LatinLower \cup DOMAIN UpperToLower

HasChar(text, class) == \E k \in 1..Len(text) : text[k] \in class

RECURSIVE StripLeft(_)
StripLeft(t) == IF t # <<>> /\ Head(t) = " " THEN StripLeft(Tail(t)) ELSE t

RECURSIVE StripRight(_)
StripRight(t) ==
  IF t # <<>> /\ t[Len(t)] = " " THEN StripRight(SubSeq(t, 1, Len(t) - 1)) ELSE t

\* str.strip()
Strip(t) == StripRight(StripLeft(t))

language_guess(text) ==
  IF text = <<>> THEN "unknown"
  ELSE LET t == Strip(text) IN
       IF HasChar(t, Cyrillic) THEN "ru"
       ELSE IF HasChar(t, Arabic) THEN "ar"
       ELSE IF HasChar(t, Han) THEN "zh"
       ELSE IF HasChar(t, Kana) THEN "ja"
       ELSE IF HasChar(t, Hangul) THEN "ko"
       ELSE IF HasChar(t, Latin) THEN "en"
       ELSE "unknown"

needs_translation_to_english(text) == language_guess(text) \notin {"en", "unknown"}

is_english_script(text) ==
  IF text = <<>> THEN FALSE
  ELSE IF HasChar(text, Cyrillic) THEN FALSE
  ELSE IF HasChar(text, Arabic) THEN FALSE
  ELSE IF HasChar(text, Han) THEN FALSE
  ELSE IF HasChar(text, Kana) THEN FALSE
  ELSE IF HasChar(text, Hangul) THEN FALSE
  ELSE HasChar(text, Latin)

\* ---------------------------------------------------------------- configuration

TOP_TRENDS_N == 10
TOP_NEWS_N == 3

\* The country list, cut to two entries: one without and one with aliases.
COUNTRIES == <<[country |-> "Ukraine", iso2 |-> "UA"], [country |-> "UAE", iso2 |-> "AE"]>>

QUERY_ALIASES == [UAE |-> <<"United Arab Emirates", "UAE">>]

pick_primary_query(country_name) ==
  IF country_name \in DOMAIN QUERY_ALIASES THEN QUERY_ALIASES[country_name][1]
  ELSE country_name

\* ---------------------------------------------------------------- Wikipedia

\* What the summary endpoint returns: None or a page document.
Page(extract, url) == [kind |-> "page", extract |-> extract, url |-> url]

\* wikipedia_summary; data2 answers the second request, sent for a country
\* with aliases whose first extract is empty.
wikipedia_summary(country_name, data, data2) ==
  IF data.kind # "page" THEN [summary |-> "", source |-> "wikipedia", url |-> ""]
  ELSE IF data.extract = "" /\ country_name \in DOMAIN QUERY_ALIASES /\ data2.kind = "page"
  THEN [summary |-> data2.extract, source |-> "wikipedia",
        url |-> IF data2.url # "" THEN data2.url ELSE data.url]
  ELSE [summary |-> data.extract, source |-> "wikipedia", url |-> data.url]

\* ---------------------------------------------------------------- Freedom House

\* "" in the score and year of a rating that was not found.
NoNumber == -1

RECURSIVE MaxOf(_)
MaxOf(S) == LET x == CHOOSE y \in S : TRUE IN
            IF S = {x} THEN x
            ELSE LET m == MaxOf(S \ {x}) IN IF x > m THEN x ELSE m

\* The entities in candidate order that both tables know with a common year.
RECURSIVE FirstRated(_, _, _, _)
FirstRated(candidates, k, pr_table, cl_table) ==
  IF k > Len(candidates) THEN ""
  ELSE LET ent == candidates[k] IN
       IF /\ ent \in DOMAIN pr_table /\ ent \in DOMAIN cl_table
          /\ DOMAIN pr_table[ent] \cap DOMAIN cl_table[ent] # {}
       THEN ent
       ELSE FirstRated(candidates, k + 1, pr_table, cl_table)

\* freedom_house_rating; the scores of the tables are whole numbers.
freedom_house_rating(country_name, pr_table, cl_table) ==
  LET candidates == IF country_name \in DOMAIN QUERY_ALIASES
                    THEN QUERY_ALIASES[country_name] \o <<country_name>>
                    ELSE <<country_name>>
      best_entity == FirstRated(candidates, 1, pr_table, cl_table)
  IN
  IF best_entity = ""
  THEN [score |-> NoNumber, status |-> "unknown", year |-> NoNumber,
        notes |-> "Freedom House score not found in OWID tables."]
  ELSE LET y == MaxOf(DOMAIN pr_table[best_entity] \cap DOMAIN cl_table[best_entity])
           best_pr == pr_table[best_entity][y]
           best_cl == cl_table[best_entity][y]
           total == best_pr + best_cl
       IN [score |-> total,
           status |-> IF total >= 70 THEN "Free"
                      ELSE IF total >= 35 THEN "Partly Free" ELSE "Not Free",
           year |-> y,
           components |-> [politicalRights |-> best_pr, civilLiberties |-> best_cl],
           sourceEntityName |-> best_entity,
           notes |-> "Computed as PR(0-40)+CL(0-60) using OWID grapher (Freedom House)."]

\* ---------------------------------------------------------------- news (GDELT)

\* What the article search returns: None, a document with its article
\* list, or a document whose "articles" entries are not objects (the loop
\* then raises).
Articles(arts) == [kind |-> "articles", articles |-> arts]
MalformedArticles == [kind |-> "malformed"]

GdeltRaises(data) == data.kind = "malformed"

\* a.get(k1) or a.get(k2) or ... or ""  for text the code inspects or cuts.
RECURSIVE FirstText(_, _, _)
FirstText(a, keys, k) ==
  IF k > Len(keys) THEN <<>>
  ELSE IF Get(a, keys[k], <<>>) # <<>> THEN a[keys[k]]
  ELSE FirstText(a, keys, k + 1)

\* The body of "for a in arts" in gdelt_recent_articles.
RECURSIVE ArticleLoop(_, _, _, _)
ArticleLoop(arts, k, seen, acc) ==
  IF k > Len(arts) THEN acc
  ELSE LET a == arts[k]
           title == Strip(Get(a, "title", <<>>))
           url == Strip(Get(a, "url", <<>>))
           dt == Get(a, "seendate", Get(a, "date", ""))
           source == Strip(FirstText(a, <<"sourceCommonName", "source", "sourceCountry">>, 1))
           key == <<Lower(title), Lower(url)>>
       IN
       IF title = <<>> \/ url = <<>> THEN ArticleLoop(arts, k + 1, seen, acc)
       ELSE IF ~is_english_script(title) THEN ArticleLoop(arts, k + 1, seen, acc)
       ELSE IF key \in seen THEN ArticleLoop(arts, k + 1, seen, acc)
       ELSE ArticleLoop(arts, k + 1, seen \cup {key},
              Append(acc, [title |-> title, url |-> url,
                           source |-> SubSeq(source, 1, IF Len(source) < 80 THEN Len(source) ELSE 80),
                           publishedAt |-> dt,
                           languageGuess |-> language_guess(title),
                           needsTranslation |-> needs_translation_to_english(title)]))

\* gdelt_recent_articles, for a response that does not make it raise.
gdelt_recent_articles(data) ==
  ArticleLoop(IF data.kind = "articles" THEN data.articles ELSE <<>>, 1, {}, <<>>)

Prefix(q, n) == SubSeq(q, 1, IF Len(q) < n THEN Len(q) ELSE n)

gdelt_top_stories(data) == Prefix(gdelt_recent_articles(data), TOP_NEWS_N)

\* ---------------------------------------------------------------- trends

stop ==
  { <<"a","f","t","e","r">>, <<"w","i","t","h">>, <<"f","r","o","m">>, <<"t","h","a","t">>,
    <<"t","h","i","s">>, <<"t","h","e","y">>, <<"t","h","e","i","r">>, <<"h","a","v","e">>,
    <<"w","i","l","l">>, <<"w","o","u","l","d">>, <<"c","o","u","l","d">>, <<"s","a","y","s">>,
    <<"s","a","i","d">>, <<"o","v","e","r">>, <<"i","n","t","o">>, <<"a","m","i","d">>,
    <<"m","o","r","e">>, <<"t","h","a","n">>, <<"a","b","o","u","t">>, <<"w","h","a","t">>,
    <<"w","h","e","n">>, <<"b","e","e","n">>, <<"w","e","r","e">>, <<"a","l","s","o">>,
    <<"w","h","i","c","h">>, <<"w","h","o">>, <<"y","o","u","r">>, <<"t","h","e","m">>,
    <<"t","o","d","a","y">>, <<"n","e","w","s">>, <<"u","p","d","a","t","e">>,
    <<"l","a","t","e","s","t">>, <<"c","o","u","n","t","r","y">>,
    <<"g","o","v","e","r","n","m","e","n","t">>, <<"p","r","e","s","i","d","e","n","t">>,
    <<"m","i","n","i","s","t","e","r">>, <<"p","r","i","m","e">>, <<"s","t","a","t","e">> }

\* One Google Trends item.
TrendItem(q, rank) ==
  [query |-> q, rank |-> rank, languageGuess |-> language_guess(q),
   needsTranslation |-> needs_translation_to_english(q),
   translationHint |-> IF needs_translation_to_english(q)
                       THEN "Translate to English in Base44" ELSE "None",
   source |-> "google_trends"]

TrendItems(series) ==
  [k \in 1..(IF Len(series) < TOP_TRENDS_N THEN Len(series) ELSE TOP_TRENDS_N)
     |-> TrendItem(Strip(series[k]), k)]

\* What a pytrends call gives: a list of queries, or an exception.
Series(vals) == [ok |-> TRUE, vals |-> vals]
Raised == [ok |-> FALSE]
SeriesItems(r) == IF r.ok THEN TrendItems(r.vals) ELSE <<>>

\* trends_top_searches_google: g.available tells whether pytrends could be
\* set up, g.lower and g.upper answer today_searches for the two spellings
\* of the country code, g.daily answers daily_trends.
trends_top_searches_google(g) ==
  IF ~g.available THEN [items |-> <<>>, method |-> "pytrends_unavailable"]
  ELSE IF SeriesItems(g.lower) # <<>>
  THEN [items |-> SeriesItems(g.lower), method |-> "google_trends_today_searches"]
  ELSE IF SeriesItems(g.upper) # <<>>
  THEN [items |-> SeriesItems(g.upper), method |-> "google_trends_today_searches"]
  ELSE IF SeriesItems(g.daily) # <<>>
  THEN [items |-> SeriesItems(g.daily), method |-> "google_trends_daily_trends"]
  ELSE [items |-> <<>>, method |-> "google_trends_unavailable_for_geo"]

\* " ".join(titles)
RECURSIVE JoinTitles(_, _)
JoinTitles(titles, k) ==
  IF k > Len(titles) THEN <<>>
  ELSE IF k = Len(titles) THEN titles[k]
  ELSE titles[k] \o <<" ">> \o JoinTitles(titles, k + 1)

\* re.sub(r"[^A-Za-z0-9\s\-]", " ", text); the model has no digits.
KeepWordChars(text) ==
  [k \in 1..Len(text) |-> IF text[k] \in Latin \cup {" ", "-"} THEN text[k] ELSE " "]

\* text.split()
RECURSIVE Split(_, _, _)
Split(text, k, word) ==
  IF k > Len(text) THEN (IF word = <<>> THEN <<>> ELSE <<word>>)
  ELSE IF text[k] = " "
  THEN (IF word = <<>> THEN <<>> ELSE <<word>>) \o Split(text, k + 1, <<>>)
  ELSE Split(text, k + 1, Append(word, text[k]))

CountOf(tokens, tok) == Cardinality({k \in 1..Len(tokens) : tokens[k] = tok})

\* The keys of counts in insertion order.
RECURSIVE FirstOccurrences(_, _, _)
FirstOccurrences(tokens, k, acc) ==
  IF k > Len(tokens) THEN acc
  ELSE IF \E j \in 1..Len(acc) : acc[j] = tokens[k]
  THEN FirstOccurrences(tokens, k + 1, acc)
  ELSE FirstOccurrences(tokens, k + 1, Append(acc, tokens[k]))

\* sorted(counts.items(), key=count, reverse=True): stable, so equal counts
\* keep their insertion order.
RECURSIVE ByCountDesc(_, _)
ByCountDesc(keys, tokens) ==
  IF keys = <<>> THEN <<>>
  ELSE LET best == CHOOSE k \in 1..Len(keys) :
                     /\ \A j \in 1..Len(keys) : CountOf(tokens, keys[j]) <= CountOf(tokens, keys[k])
                     /\ \A j \in 1..(k - 1) : CountOf(tokens, keys[j]) < CountOf(tokens, keys[k])
       IN <<keys[best]>>
          \o ByCountDesc(SubSeq(keys, 1, best - 1) \o SubSeq(keys, best + 1, Len(keys)), tokens)

extract_proxy_trends_from_titles(titles) ==
  LET english == SelectSeq(titles, is_english_script)
      text == KeepWordChars(JoinTitles(english, 1))
      words == Split(text, 1, <<>>)
      long == SelectSeq(words, LAMBDA t : Len(t) >= 4)
      lowered == [k \in 1..Len(long) |-> Lower(long[k])]
      tokens == SelectSeq(lowered, LAMBDA t : t \notin stop)
      top == Prefix(ByCountDesc(FirstOccurrences(tokens, 1, <<>>), tokens), TOP_TRENDS_N)
  IN [k \in 1..Len(top) |->
        [query |-> top[k], rank |-> k, count |-> CountOf(tokens, top[k]),
         languageGuess |-> "en", needsTranslation |-> FALSE,
         translationHint |-> "None", source |-> "news_proxy",
         notes |-> "Proxy trend (derived from frequent terms in recent English headlines). Not actual search data."]]

\* trends_top_searches, for a GDELT response that does not make it raise.
trends_top_searches(g, gdelt) ==
  LET google == trends_top_searches_google(g) IN
  IF google.items # <<>> THEN google
  ELSE LET arts == Prefix(gdelt_recent_articles(gdelt), 35)
           titles == [k \in 1..Len(arts) |-> arts[k].title]
       IN [items |-> extract_proxy_trends_from_titles(titles), method |-> "news_proxy_trends"]

\* trends_top_searches raises when the proxy path meets a malformed document.
TrendsRaises(g, gdelt) ==
  trends_top_searches_google(g).items = <<>> /\ GdeltRaises(gdelt)

\* us_interest: u is what pytrends gives for the query.
us_interest(country_query, u) ==
  LET nothing == [query |-> country_query, window |-> "past_24h",
                  interestIndex |-> 0, sparkline |-> <<>>]
  IN
  IF u.kind = "unavailable" THEN [obj |-> nothing, method |-> "pytrends_unavailable"]
  ELSE IF u.kind = "failed" THEN [obj |-> nothing, method |-> "google_trends_interest_failed"]
  ELSE IF u.kind = "empty" THEN [obj |-> nothing, method |-> "google_trends_interest_empty"]
  ELSE [obj |-> [query |-> country_query, window |-> "past_24h",
                 interestIndex |-> IF u.series # <<>> THEN u.series[Len(u.series)] ELSE 0,
                 sparkline |-> SubSeq(u.series,
                                      IF Len(u.series) > 24 THEN Len(u.series) - 23 ELSE 1,
                                      Len(u.series))],
        method |-> "google_trends_interest_over_time_us"]

\* ---------------------------------------------------------------- build_country

\* The amounts subtracted from the confidence, in hundredths.
PenaltyDescription == 5
PenaltyEntityNotFound == 25
PenaltyLeaders == 10
PenaltyPoliticalSystem == 5
PenaltyLegislature == 5
PenaltyFreedom == 5
PenaltyTopSearches == 10
PenaltyProxyTrends == 3
PenaltyFewStories == 5
PenaltyGdeltFailed == 15
PenaltyUsInterest == 8

WarnDescription == "Wikipedia summary missing/unavailable for this title."
WarnEntityNotFound == "Wikidata entity not found via ISO2; government/elections fields missing."
WarnLeaders == "Leader fields missing (Wikidata gaps)."
WarnPoliticalSystem == "Political system missing from Wikidata."
WarnLegislature == "Legislative control winner not found (Wikidata election winner missing)."
WarnFreedom == "Political freedom rating unavailable (OWID Freedom House tables missing this entity)."
WarnTopSearches == "Top searches unavailable; proxy trends also empty."
WarnProxyTrends == "Top searches are proxy trends (news-derived), not actual search queries."
WarnFewStories == "Fewer than 3 recent English stories found via GDELT."
WarnGdeltFailed == "GDELT fetch failed; news empty."
WarnUsInterest == "US search interest unavailable/empty via Google Trends (common in CI)."

\* The warning appended, the subtraction forgotten.
Penalize_WarnOnly(f, msg, penalty) == [f EXCEPT !.warnings = Append(@, msg)]

\* warnings.append(msg); confidence -= penalty
Penalize(f, msg, penalty) ==
  [f EXCEPT !.warnings = Append(@, msg), !.confidence = @ - penalty]

\* The locals of build_country on entry.
BuildEntry(country_name, iso2) ==
  [country_name |-> country_name, iso2 |-> iso2, warnings |-> <<>>, confidence |-> 100]

\* Description
DoDescription(f, data, data2) ==
  LET desc == wikipedia_summary(f.country_name, data, data2)
      f1 == ("desc" :> desc) @@ f
  IN IF desc.summary = "" THEN Penalize(f1, WarnDescription, PenaltyDescription) ELSE f1

\* The fields build_country fills in itself when the country has no Q-id.
EntityNotFound(f) ==
  LET political_system == field_value(<<>>, "unknown", "wikidata_country_qid_not_found", <<>>, NoExtra)
      gov == [politicalSystem |-> political_system,
              leaders |-> <<>>, leadersSamePerson |-> FALSE, leaderNotes |-> "",
              executiveControllerParty |->
                 field_value("", "unknown", "wikidata_country_qid_not_found", <<>>, NoExtra),
              legislatureBodies |-> <<>>]
      next_elec == field_value("", "unknown", "wikidata_country_qid_not_found", <<>>,
                     [date |-> "", name |-> "", type |-> "", dateField |-> "",
                      notes |-> "Wikidata country not found, cannot query elections."])
      leg_control == field_value("", "unknown", "wikidata_country_qid_not_found", <<>>,
                     [electionName |-> "", electionDate |-> "",
                      notes |-> "Wikidata country not found, cannot query legislative control."])
  IN [political_system |-> political_system, gov |-> gov,
      next_elec |-> next_elec, leg_control |-> leg_control]
     @@ Penalize(f, WarnEntityNotFound, PenaltyEntityNotFound)

\* qid = get_wikidata_country_qid_by_iso2(iso2) and the "if not qid" branch
DoQid(f, data) ==
  LET qid == get_wikidata_country_qid_by_iso2(data)
      f1 == ("qid" :> qid) @@ f
  IN IF qid = "" THEN EntityNotFound(f1) ELSE f1

DoPoliticalSystem(f, data) ==
  ("political_system" :> get_political_system_single(f.qid, data)) @@ f

\* The political-system check placed before the leaders check.
DoGovernment_PoliticalSystemFirst(f, data) ==
  LET gov == ("politicalSystem" :> f.political_system) @@ get_government_snapshot(f.qid, data)
      f1 == ("gov" :> gov) @@ f
      f2 == IF f.political_system.status # "ok"
            THEN Penalize(f1, WarnPoliticalSystem, PenaltyPoliticalSystem) ELSE f1
  IN IF gov.leaders = <<>> THEN Penalize(f2, WarnLeaders, PenaltyLeaders) ELSE f2

\* gov = get_government_snapshot(qid) and the two checks that follow it
DoGovernment(f, data) ==
  LET gov == ("politicalSystem" :> f.political_system) @@ get_government_snapshot(f.qid, data)
      f1 == ("gov" :> gov) @@ f
      f2 == IF gov.leaders = <<>> THEN Penalize(f1, WarnLeaders, PenaltyLeaders) ELSE f1
  IN IF f.political_system.status # "ok"
     THEN Penalize(f2, WarnPoliticalSystem, PenaltyPoliticalSystem) ELSE f2

DoNextElection(f, upcoming, past) ==
  ("next_elec" :> get_next_national_election(f.qid, Get(f.political_system, "value", <<>>),
                                             upcoming, past)) @@ f

DoLegislature(f, data) ==
  LET leg_control == get_last_legislative_election_winner(f.qid, data)
      f1 == ("leg_control" :> leg_control) @@ f
  IN IF leg_control.status # "ok"
     THEN Penalize(f1, WarnLegislature, PenaltyLegislature) ELSE f1

\* The list built without the placeholder for a country with no known body.
DoPartyControl_NoPlaceholder(f) ==
  LET legs == f.gov.legislatureBodies
      executive == [body |-> "Executive",
                    controller |-> Get(f.gov, "executiveControllerParty",
                                       field_value("", "unknown", "", <<>>, NoExtra)),
                    controlType |-> "leader-party",
                    notes |-> "Derived from Head of Government party (fallback: Head of State party)."]
  IN ("party_control" :>
        (<<executive>> \o
         [k \in 1..Len(legs) |->
            [body |-> legs[k], controller |-> f.leg_control,
             controlType |-> "last-election-winner",
             notes |-> "Approximate from last election winner (Wikidata P1346)."]]))
     @@ f

\* Party control list (executive + each legislature body)
DoPartyControl(f) ==
  LET legs == IF f.gov.legislatureBodies = <<>> THEN <<"Legislature">>
              ELSE f.gov.legislatureBodies
      executive == [body |-> "Executive",
                    controller |-> Get(f.gov, "executiveControllerParty",
                                       field_value("", "unknown", "", <<>>, NoExtra)),
                    controlType |-> "leader-party",
                    notes |-> "Derived from Head of Government party (fallback: Head of State party)."]
  IN ("party_control" :>
        (<<executive>> \o
         [k \in 1..Len(legs) |->
            [body |-> legs[k], controller |-> f.leg_control,
             controlType |-> "last-election-winner",
             notes |-> "Approximate from last election winner (Wikidata P1346)."]]))
     @@ f

\* Freedom rating
DoFreedom(f, pr_table, cl_table) ==
  LET freedom == freedom_house_rating(f.country_name, pr_table, cl_table)
      f1 == ("freedom" :> freedom) @@ f
  IN IF freedom.score = NoNumber THEN Penalize(f1, WarnFreedom, PenaltyFreedom) ELSE f1

\* Trends, when trends_top_searches returns
DoTrends(f, g, gdelt) ==
  LET t == trends_top_searches(g, gdelt)
      f1 == [trends_items |-> t.items, trends_method |-> t.method] @@ f
  IN IF t.items = <<>> THEN Penalize(f1, WarnTopSearches, PenaltyTopSearches)
     ELSE IF t.method = "news_proxy_trends"
     THEN Penalize(f1, WarnProxyTrends, PenaltyProxyTrends)
     ELSE f1

\* News: the try block and its except branch
DoNews(f, gdelt) ==
  IF GdeltRaises(gdelt)
  THEN Penalize(("stories" :> <<>>) @@ f, WarnGdeltFailed, PenaltyGdeltFailed)
  ELSE LET stories == gdelt_top_stories(gdelt)
           f1 == ("stories" :> stories) @@ f
       IN IF Len(stories) < TOP_NEWS_N
          THEN Penalize(f1, WarnFewStories, PenaltyFewStories) ELSE f1

\* US interest
DoUsInterest(f, u) ==
  LET r == us_interest(pick_primary_query(f.country_name), u)
      f1 == [us_obj |-> r.obj, us_method |-> r.method] @@ f
  IN IF r.obj.sparkline = <<>> THEN Penalize(f1, WarnUsInterest, PenaltyUsInterest) ELSE f1

\* max(0.0, min(1.0, confidence))
Clamp(confidence) ==
  IF confidence > 100 THEN 100 ELSE IF confidence < 0 THEN 0 ELSE confidence

\* The returned record; round(confidence, 2) keeps a count of hundredths.
CountryRecord(f) ==
  [country |-> f.country_name,
   iso2 |-> f.iso2,
   description |-> f.desc,
   government |->
     [politicalSystem |-> Get(f.gov, "politicalSystem",
                              field_value(<<>>, "unknown", "", <<>>, NoExtra)),
      leaders |-> f.gov.leaders,
      leadersSamePerson |-> f.gov.leadersSamePerson,
      leaderNotes |-> f.gov.leaderNotes,
      partyControl |-> f.party_control],
   elections |-> [nextNationalElection |-> f.next_elec,
                  legislatureControlBasis |-> f.leg_control],
   politicalFreedomRating |-> f.freedom,
   trends |-> [topSearchesPast24h |-> f.trends_items, method |-> f.trends_method],
   news |-> [topStoriesPast3d |-> f.stories, method |-> "gdelt_doc_api", englishOnly |-> TRUE],
   usInterest |-> ("method" :> f.us_method) @@ f.us_obj,
   quality |-> [confidence |-> Clamp(f.confidence), warnings |-> f.warnings]]

\* ---------------------------------------------------------------- inputs of build_country

\* The OWID tables as parsed: entity -> year -> score; <<>> is the empty
\* table of a download that failed.
PrFull == ("Ukraine" :> (2022 :> 21 @@ 2023 :> 20)) @@ ("United Arab Emirates" :> (2023 :> 5))
ClFull == ("Ukraine" :> (2021 :> 30 @@ 2023 :> 29)) @@ ("United Arab Emirates" :> (2023 :> 13))
PrHigh == ("Ukraine" :> (2023 :> 38)) @@ ("UAE" :> (2023 :> 25))
ClHigh == ("Ukraine" :> (2023 :> 55)) @@ ("UAE" :> (2022 :> 30))

TablePairs ==
  {[pr |-> <<>>, cl |-> <<>>], [pr |-> PrFull, cl |-> ClFull], [pr |-> PrHigh, cl |-> ClHigh]}

BuildWikiResponses ==
  {<<NoResponse, NoResponse>>,
   <<Page("A country.", "https://en.wikipedia.org/wiki/Country"), NoResponse>>,
   <<Page("", "https://en.wikipedia.org/wiki/Country"),
     Page("A federation.", "https://en.wikipedia.org/wiki/Alias")>>}

BuildQidResponses == {NoResponse, JsonRows(<<[country |-> CountryQid]>>)}

BuildPolsysResponses ==
  {NoResponse,
   JsonRows(<<[polsys |-> "Q7270", polsysLabel |-> LblRepublic]>>),
   JsonRows(<<[polsys |-> "Q184558", polsysLabel |-> LblAbsoluteMonarchy]>>)}

BuildGovResponses ==
  {NoResponse,
   JsonRows(<<[hos |-> "Q10", hosLabel |-> "Ana", hog |-> "Q11", hogLabel |-> "Ben",
               hogParty |-> "Q50", hogPartyLabel |-> "Unity Party",
               leg |-> "Q60", legLabel |-> "Senate"]>>),
   JsonRows(<<[hos |-> "Q12", hosLabel |-> "Cy", hosParty |-> "Q51",
               hosPartyLabel |-> "Reform Party", hog |-> "Q11", hogLabel |-> "Ben"]>>),
   JsonRows(<<[leg |-> "Q60", legLabel |-> "Senate"],
              [leg |-> "Q61", legLabel |-> "National Assembly"]>>)}

BuildUpcomingResponses == {NoResponse, JsonRows(<<UpcomingRow>>)}
BuildPastResponses == {NoResponse, JsonRows(<<[e |-> "Q800"]>>)}

BuildLegResponses ==
  {NoResponse,
   JsonRows(<<[e |-> "Q800", eLabel |-> "2024 general election",
               date |-> "2024-07-04T00:00:00Z", winner |-> "Q50",
               winnerLabel |-> "Unity Party"]>>),
   JsonRows(<<[e |-> "Q800", eLabel |-> "2024 general election",
               date |-> "2024-07-04T00:00:00Z"]>>)}

BuildTrendsResponses ==
  {[available |-> FALSE],
   [available |-> TRUE, lower |-> Series(<<<<"w","a","r">>, <<"u0416">>>>),
    upper |-> Raised, daily |-> Raised],
   [available |-> TRUE, lower |-> Raised, upper |-> Series(<<>>),
    daily |-> Series(<<<<"v","o","t","e">>>>)],
   [available |-> TRUE, lower |-> Raised, upper |-> Raised, daily |-> Raised]}

ArtTalks == [title |-> <<"P","e","a","c","e"," ","t","a","l","k","s">>, url |-> <<"u","1">>,
             seendate |-> "20261101T120000Z", sourceCommonName |-> <<"b","b","c">>]
ArtTalksAgain == [title |-> <<"p","e","a","c","e"," ","T","a","l","k","s"," ">>, url |-> <<"U","1">>,
                  date |-> "20261101T130000Z", source |-> <<"b","b","c">>]
ArtTalksCopy == [title |-> <<"P","e","a","c","e"," ","t","a","l","k","s">>, url |-> <<"u","2">>,
                 seendate |-> "20261101T140000Z", sourceCountry |-> <<"u","k">>]
ArtVote == [title |-> <<"V","o","t","e",":"," ","n","e","w","s">>, url |-> <<"u","3">>,
            seendate |-> "20261102T080000Z"]
ArtCyrillic == [title |-> <<"u0416","u044F"," ","a">>, url |-> <<"u","4">>]
ArtNoUrl == [title |-> <<"G","a","s">>]

BuildGdeltResponses ==
  {NoResponse, MalformedArticles,
   Articles(<<ArtTalks, ArtTalksAgain, ArtCyrillic, ArtNoUrl>>),
   Articles(<<ArtTalks, ArtTalksCopy, ArtVote>>)}

BuildUsResponses ==
  {[kind |-> "unavailable"], [kind |-> "failed"], [kind |-> "series", series |-> <<12, 40>>]}

\* ---------------------------------------------------------------- build_country, step by step

\* SpecBuild: one call of build_country; pc is the statement it is at, b
\* its locals, tables the two OWID tables it is handed, call the record it
\* returns.
InitBuild ==
  /\ \E k \in 1..Len(COUNTRIES) : b = BuildEntry(COUNTRIES[k].country, COUNTRIES[k].iso2)
  /\ tables \in TablePairs
  /\ pc = "description"
  /\ call = NoCall
  /\ out = <<>> /\ file = <<>>

BuildDescription ==
  /\ pc = "description"
  /\ \E w \in BuildWikiResponses : b' = DoDescription(b, w[1], w[2])
  /\ pc' = "wikidata"
  /\ UNCHANGED <<call, out, tables, file>>

BuildQid ==
  /\ pc = "wikidata"
  /\ \E d \in BuildQidResponses :
       /\ b' = DoQid(b, d)
       /\ pc' = IF b'.qid = "" THEN "party_control" ELSE "political_system"
  /\ UNCHANGED <<call, out, tables, file>>

BuildPoliticalSystem ==
  /\ pc = "political_system"
  /\ \E d \in BuildPolsysResponses : b' = DoPoliticalSystem(b, d)
  /\ pc' = "government"
  /\ UNCHANGED <<call, out, tables, file>>

BuildGovernment ==
  /\ pc = "government"
  /\ \E d \in BuildGovResponses : b' = DoGovernment(b, d)
  /\ pc' = "next_election"
  /\ UNCHANGED <<call, out, tables, file>>

BuildNextElection ==
  /\ pc = "next_election"
  /\ \E u \in BuildUpcomingResponses, p \in BuildPastResponses : b' = DoNextElection(b, u, p)
  /\ pc' = "legislature"
  /\ UNCHANGED <<call, out, tables, file>>

BuildLegislature ==
  /\ pc = "legislature"
  /\ \E d \in BuildLegResponses : b' = DoLegislature(b, d)
  /\ pc' = "party_control"
  /\ UNCHANGED <<call, out, tables, file>>

BuildPartyControl ==
  /\ pc = "party_control"
  /\ b' = DoPartyControl(b)
  /\ pc' = "freedom"
  /\ UNCHANGED <<call, out, tables, file>>

BuildFreedom ==
  /\ pc = "freedom"
  /\ b' = DoFreedom(b, tables.pr, tables.cl)
  /\ pc' = "trends"
  /\ UNCHANGED <<call, out, tables, file>>

BuildTrends ==
  /\ pc = "trends"
  /\ \E g \in BuildTrendsResponses, d \in BuildGdeltResponses :
       /\ ~TrendsRaises(g, d)
       /\ b' = DoTrends(b, g, d)
  /\ pc' = "news"
  /\ UNCHANGED <<call, out, tables, file>>

\* The exception of the article loop leaves build_country from the trends step.
BuildTrendsRaise ==
  /\ pc = "trends"
  /\ \E g \in BuildTrendsResponses, d \in BuildGdeltResponses : TrendsRaises(g, d)
  /\ pc' = "raised"
  /\ UNCHANGED <<call, b, out, tables, file>>

BuildNews ==
  /\ pc = "news"
  /\ \E d \in BuildGdeltResponses : b' = DoNews(b, d)
  /\ pc' = "us_interest"
  /\ UNCHANGED <<call, out, tables, file>>

BuildUsInterest ==
  /\ pc = "us_interest"
  /\ \E u \in BuildUsResponses : b' = DoUsInterest(b, u)
  /\ pc' = "return"
  /\ UNCHANGED <<call, out, tables, file>>

BuildReturn ==
  /\ pc = "return"
  /\ call' = [fn |-> "build_country", result |-> CountryRecord(b)]
  /\ pc' = "returned"
  /\ UNCHANGED <<b, out, tables, file>>

NextBuild ==
  \/ BuildDescription \/ BuildQid \/ BuildPoliticalSystem \/ BuildGovernment
  \/ BuildNextElection \/ BuildLegislature \/ BuildPartyControl \/ BuildFreedom
  \/ BuildTrends \/ BuildTrendsRaise \/ BuildNews \/ BuildUsInterest \/ BuildReturn

SpecBuild == InitBuild /\ [][NextBuild]_vars

\* ---------------------------------------------------------------- build_country as one call

\* The proxy path reading the articles of a document that is not there.
BuildRaises_OnNoResponse(r) ==
  trends_top_searches_google(r.trends).items = <<>> /\ r.gdelt_trends.kind # "articles"

\* trends_top_searches raises on the responses r.
BuildRaises(r) == TrendsRaises(r.trends, r.gdelt_trends)

\* The statements of the "else" branch of "if not qid".
WikidataFields(f, r) ==
  IF f.qid = "" THEN f
  ELSE DoLegislature(
         DoNextElection(DoGovernment(DoPoliticalSystem(f, r.polsys), r.gov), r.upcoming, r.past),
         r.leg)

\* build_country(country_name, iso2, pr_table, cl_table) on the responses r
\* of its network calls, when it returns: its statements in order, each
\* applied to the entry the one before it left.
build_country(country_name, iso2, pr_table, cl_table, r) ==
  CountryRecord(
    DoUsInterest(
      DoNews(
        DoTrends(
          DoFreedom(
            DoPartyControl(
              WikidataFields(
                DoQid(DoDescription(BuildEntry(country_name, iso2), r.wiki[1], r.wiki[2]), r.qid),
                r)),
            pr_table, cl_table),
          r.trends, r.gdelt_trends),
        r.gdelt_news),
      r.us))

\* ---------------------------------------------------------------- main

Sources ==
  <<"wiki", "qid", "polsys", "gov", "upcoming", "past", "leg",
    "trends", "gdelt_trends", "gdelt_news", "us">>

\* Every source answering with data.
Nominal ==
  [wiki |-> <<Page("A country.", "https://en.wikipedia.org/wiki/Country"), NoResponse>>,
   qid |-> JsonRows(<<[country |-> CountryQid]>>),
   polsys |-> JsonRows(<<[polsys |-> "Q7270", polsysLabel |-> LblRepublic]>>),
   gov |-> JsonRows(<<[hos |-> "Q10", hosLabel |-> "Ana", hog |-> "Q11", hogLabel |-> "Ben",
                       hogParty |-> "Q50", hogPartyLabel |-> "Unity Party",
                       leg |-> "Q60", legLabel |-> "Senate"]>>),
   upcoming |-> JsonRows(<<UpcomingRow>>),
   past |-> JsonRows(<<[e |-> "Q800"]>>),
   leg |-> JsonRows(<<[e |-> "Q800", eLabel |-> "2024 general election",
                       date |-> "2024-07-04T00:00:00Z", winner |-> "Q50",
                       winnerLabel |-> "Unity Party"]>>),
   trends |-> [available |-> TRUE, lower |-> Series(<<<<"w","a","r">>, <<"u0416">>>>),
               upper |-> Raised, daily |-> Raised],
   gdelt_trends |-> Articles(<<ArtTalks, ArtTalksCopy, ArtVote>>),
   gdelt_news |-> Articles(<<ArtTalks, ArtTalksCopy, ArtVote>>),
   us |-> [kind |-> "series", series |-> <<12, 40>>]]

\* The ways each source fails.
Failures ==
  [wiki |-> {<<NoResponse, NoResponse>>},
   qid |-> {NoResponse},
   polsys |-> {NoResponse},
   gov |-> {NoResponse},
   upcoming |-> {NoResponse},
   past |-> {NoResponse},
   leg |-> {NoResponse},
   trends |-> {[available |-> FALSE]},
   gdelt_trends |-> {NoResponse, MalformedArticles},
   gdelt_news |-> {NoResponse, MalformedArticles},
   us |-> {[kind |-> "unavailable"]}]

\* The responses of one build in which at most budget of the sources from
\* the k-th on fail.
RECURSIVE ResponsesFrom(_, _)
ResponsesFrom(k, budget) ==
  IF k > Len(Sources) THEN {<<>>}
  ELSE LET key == Sources[k] IN
       {(key :> Nominal[key]) @@ r : r \in ResponsesFrom(k + 1, budget)}
       \cup (IF budget = 0 THEN {}
             ELSE {(key :> x) @@ r : x \in Failures[key], r \in ResponsesFrom(k + 1, budget - 1)})

MainResponses == ResponsesFrom(1, MaxFaults)

\* The snapshot a previous run left in public/countries_snapshot.json: every
\* source had answered.
PreviousSnapshot ==
  [countries |->
     [k \in 1..Len(COUNTRIES) |->
        build_country(COUNTRIES[k].country, COUNTRIES[k].iso2, PrFull, ClFull, Nominal)]]

\* The output file does not exist.
NoFile == [countries |-> <<>>]

\* SpecMain: one run of main.  out is out["countries"], file the content of
\* the output file, tables the loaded OWID tables.
InitMain ==
  /\ pc = "load"
  /\ out = <<>>
  /\ tables = <<>>
  /\ file \in {NoFile, PreviousSnapshot}
  /\ call = NoCall /\ b = <<>>

MainLoadTables ==
  /\ pc = "load"
  /\ tables' \in TablePairs
  /\ pc' = "loop"
  /\ UNCHANGED <<call, b, out, file>>

\* The new record put in front of the list.
MainBuildCountry_Prepend ==
  /\ pc = "loop"
  /\ Len(out) < Len(COUNTRIES)
  /\ \E r \in MainResponses :
       /\ ~BuildRaises(r)
       /\ out' = <<build_country(COUNTRIES[Len(out) + 1].country,
                                 COUNTRIES[Len(out) + 1].iso2,
                                 tables.pr, tables.cl, r)>> \o out
  /\ UNCHANGED <<call, pc, b, tables, file>>

\* The file saved after every country.
MainBuildCountry_SaveEach ==
  /\ pc = "loop"
  /\ Len(out) < Len(COUNTRIES)
  /\ \E r \in MainResponses :
       /\ ~BuildRaises(r)
       /\ out' = Append(out, build_country(COUNTRIES[Len(out) + 1].country,
                                           COUNTRIES[Len(out) + 1].iso2,
                                           tables.pr, tables.cl, r))
  /\ file' = [countries |-> out']
  /\ UNCHANGED <<call, pc, b, tables>>

MainBuildCountry ==
  /\ pc = "loop"
  /\ Len(out) < Len(COUNTRIES)
  /\ \E r \in MainResponses :
       /\ ~BuildRaises(r)
       /\ out' = Append(out, build_country(COUNTRIES[Len(out) + 1].country,
                                           COUNTRIES[Len(out) + 1].iso2,
                                           tables.pr, tables.cl, r))
  /\ UNCHANGED <<call, pc, b, tables, file>>

\* An exception in build_country ends the run.
MainBuildRaises ==
  /\ pc = "loop"
  /\ Len(out) < Len(COUNTRIES)
  /\ \E r \in MainResponses : BuildRaises(r)
  /\ pc' = "aborted"
  /\ UNCHANGED <<call, b, out, tables, file>>

MainMkdir ==
  /\ pc = "loop"
  /\ Len(out) = Len(COUNTRIES)
  /\ pc' = "write"
  /\ UNCHANGED <<call, b, out, tables, file>>

\* out_dir.mkdir raises.
MainMkdirFails ==
  /\ pc = "loop"
  /\ Len(out) = Len(COUNTRIES)
  /\ pc' = "aborted"
  /\ UNCHANGED <<call, b, out, tables, file>>

MainWrite ==
  /\ pc = "write"
  /\ file' = [countries |-> out]
  /\ pc' = "done"
  /\ UNCHANGED <<call, b, out, tables>>

NextMain ==
  \/ MainLoadTables \/ MainBuildCountry \/ MainBuildRaises
  \/ MainMkdir \/ MainMkdirFails \/ MainWrite

SpecMain == InitMain /\ [][NextMain]_vars

\* ---------------------------------------------------------------- build_country over every failure

\* Every source either answers or fails, in every combination.
CallResponses == ResponsesFrom(1, Len(Sources))

\* SpecBuildCall: one call of build_country; call records the country, the
\* tables, the responses of the sources and either the record returned or
\* that the call raised.
CallBuildCountry ==
  /\ call = NoCall
  /\ \E k \in 1..Len(COUNTRIES), t \in TablePairs, r \in CallResponses :
       /\ ~BuildRaises(r)
       /\ call' = [fn |-> "build_country", k |-> k, tables |-> t, r |-> r, raised |-> FALSE,
                   result |-> build_country(COUNTRIES[k].country, COUNTRIES[k].iso2,
                                            t.pr, t.cl, r)]
  /\ UNCHANGED <<pc, b, out, tables, file>>

CallBuildCountryRaises ==
  /\ call = NoCall
  /\ \E k \in 1..Len(COUNTRIES), t \in TablePairs, r \in CallResponses :
       /\ BuildRaises(r)
       /\ call' = [fn |-> "build_country", k |-> k, tables |-> t, r |-> r, raised |-> TRUE]
  /\ UNCHANGED <<pc, b, out, tables, file>>

NextBuildCall == CallBuildCountry \/ CallBuildCountryRaises

SpecBuildCall == InitResolve /\ [][NextBuildCall]_vars

\* ---------------------------------------------------------------- claims on build_country

Returned == call.fn = "build_country"

\* The closed set of statuses of the specification.
Statuses == {"ok", "computed", "estimated", "unknown", "not_applicable", "blocked"}
WithPayload == {"ok", "computed", "estimated"}

\* The controllers of the partyControl list of a record.
Controllers(rec) ==
  {rec.government.partyControl[k].controller : k \in 1..Len(rec.government.partyControl)}

\* The fields built by field_value have a closed status and, outside
\* ok/computed/estimated, an empty payload.
StructuredFieldsClosed(rec) ==
  /\ rec.government.politicalSystem.status \in Statuses
  /\ rec.government.politicalSystem.status \notin WithPayload
       => rec.government.politicalSystem.value = <<>>
  /\ \A c \in Controllers(rec) \cup {rec.elections.legislatureControlBasis} :
       /\ c.status \in Statuses
       /\ c.status \notin WithPayload => c.value = ""
  /\ rec.elections.nextNationalElection.status \in Statuses
  /\ rec.elections.nextNationalElection.status \notin WithPayload
       => /\ rec.elections.nextNationalElection.date = ""
          /\ "value" \notin DOMAIN rec.elections.nextNationalElection

C9_ConfidenceRange ==
  /\ pc = "description" => (b.confidence = 100 /\ b.warnings = <<>>)
  /\ Returned =>
       /\ call.result.quality.confidence \in 0..100
       /\ (call.result.quality.confidence = 100) <=> (call.result.quality.warnings = <<>>)

\* A record with warnings and a record without.
C9_Witness ==
  /\ Returned
  /\ call.result.quality.confidence < 100
  /\ Len(call.result.quality.warnings) >= 3

\* A record without any warning.
C9_NoPenaltyReached ==
  /\ Returned
  /\ call.result.quality.confidence = 100
  /\ call.result.quality.warnings = <<>>

\* ---------------------------------------------------------------- claims on a run

\* The fresh freedom rating of the k-th country in this run.
FreshFreedom(k) == freedom_house_rating(COUNTRIES[k].country, tables.pr, tables.cl)

\* C2 as stated, for a run: a staleness-tolerant field whose fresh
\* resolution fails while the previous snapshot holds it with a value is
\* emitted with the previous value; so a freedom rating that is not found
\* now is emitted with the previous score, and a controller the previous
\* snapshot had with status ok is emitted with status ok.
C2_StickyMerge ==
  (pc \in {"loop", "write"} /\ file = PreviousSnapshot) =>
    \A k \in 1..Len(out) :
      LET prev == file.countries[k]
          new == out[k]
      IN /\ (FreshFreedom(k).score = NoNumber /\ prev.politicalFreedomRating.score # NoNumber)
              => new.politicalFreedomRating.score = prev.politicalFreedomRating.score
         /\ prev.elections.legislatureControlBasis.status = "ok"
              => new.elections.legislatureControlBasis.status = "ok"
         /\ prev.government.partyControl[1].controller.status = "ok"
              => new.government.partyControl[1].controller.status = "ok"

DerivedFieldNames ==
  {"politicalSystem", "executive", "legislature", "nextNationalElection", "freedom"}

\* The derived fields of a record whose status is not ok.
Failed(rec) ==
  {f \in DerivedFieldNames :
     \/ f = "politicalSystem" /\ rec.government.politicalSystem.status # "ok"
     \/ f = "executive" /\ rec.government.partyControl[1].controller.status # "ok"
     \/ f = "legislature" /\ rec.elections.legislatureControlBasis.status # "ok"
     \/ f = "nextNationalElection" /\ rec.elections.nextNationalElection.status # "ok"
     \/ f = "freedom" /\ rec.politicalFreedomRating.score = NoNumber}

DerivedFieldWarnings == {WarnEntityNotFound, WarnPoliticalSystem, WarnLegislature, WarnFreedom}

\* The warnings of a record that are not about a derived field.
OtherWarnings(rec) ==
  SelectSeq(rec.quality.warnings, LAMBDA w : w \notin DerivedFieldWarnings)

\* C8 as stated: of two records of a run that differ in one derived field
\* only, failed in the second, the second has a strictly lower confidence
\* (or is at the floor) and at least one more warning.
C8_PenaltyForEveryField ==
  \A i \in 1..Len(out), j \in 1..Len(out), f \in DerivedFieldNames :
    (/\ f \notin Failed(out[i])
     /\ Failed(out[j]) = Failed(out[i]) \cup {f}
     /\ OtherWarnings(out[j]) = OtherWarnings(out[i]))
    => /\ \/ out[j].quality.confidence < out[i].quality.confidence
          \/ out[j].quality.confidence = 0
       /\ Len(out[j].quality.warnings) >= Len(out[i].quality.warnings) + 1

GovernmentWarnings == {WarnEntityNotFound, WarnLeaders, WarnPoliticalSystem, WarnLegislature}
TrendWarnings == {WarnTopSearches, WarnProxyTrends, WarnUsInterest}

\* C10 as stated: a record whose only warning is about government or leader
\* data has lost more confidence than a record whose only warning is about
\* trend data.
C10_GovernmentPenaltiesLarger ==
  \A i \in 1..Len(out), j \in 1..Len(out) :
    (/\ Len(out[i].quality.warnings) = 1 /\ out[i].quality.warnings[1] \in GovernmentWarnings
     /\ Len(out[j].quality.warnings) = 1 /\ out[j].quality.warnings[1] \in TrendWarnings)
    => 100 - out[i].quality.confidence > 100 - out[j].quality.confidence

\* ---------------------------------------------------------------- claims on scoring and layout

\* <<w>> when cond holds, nothing otherwise.
WarningIf(cond, w) == IF cond THEN <<w>> ELSE <<>>

\* The amount that goes with each warning.
PenaltyOf(w) ==
  CASE w = WarnDescription -> PenaltyDescription
    [] w = WarnEntityNotFound -> PenaltyEntityNotFound
    [] w = WarnLeaders -> PenaltyLeaders
    [] w = WarnPoliticalSystem -> PenaltyPoliticalSystem
    [] w = WarnLegislature -> PenaltyLegislature
    [] w = WarnFreedom -> PenaltyFreedom
    [] w = WarnTopSearches -> PenaltyTopSearches
    [] w = WarnProxyTrends -> PenaltyProxyTrends
    [] w = WarnFewStories -> PenaltyFewStories
    [] w = WarnGdeltFailed -> PenaltyGdeltFailed
    [] w = WarnUsInterest -> PenaltyUsInterest

RECURSIVE PenaltySum(_, _)
PenaltySum(ws, k) == IF k > Len(ws) THEN 0 ELSE PenaltyOf(ws[k]) + PenaltySum(ws, k + 1)

\* The record says the country has no Wikidata entity.
NoEntity(rec) ==
  Get(rec.government.politicalSystem, "reason", "") = "wikidata_country_qid_not_found"

\* The warnings the outcomes in a record call for, in the order description,
\* Wikidata entity, leaders, political system, legislature control, freedom
\* rating, trends, news, US interest; news is the warning of the news step.
WarningsInOrder(rec, news) ==
  WarningIf(rec.description.summary = "", WarnDescription)
  \o (IF NoEntity(rec) THEN <<WarnEntityNotFound>>
      ELSE WarningIf(rec.government.leaders = <<>>, WarnLeaders)
           \o WarningIf(rec.government.politicalSystem.status # "ok", WarnPoliticalSystem)
           \o WarningIf(rec.elections.legislatureControlBasis.status # "ok", WarnLegislature))
  \o WarningIf(rec.politicalFreedomRating.status = "unknown", WarnFreedom)
  \o (IF rec.trends.topSearchesPast24h = <<>> THEN <<WarnTopSearches>>
      ELSE WarningIf(rec.trends.method = "news_proxy_trends", WarnProxyTrends))
  \o news
  \o WarningIf(rec.usInterest.sparkline = <<>>, WarnUsInterest)

\* The news step warns of a failed fetch or of too few stories, and only
\* when fewer than TOP_NEWS_N stories came out of it.
NewsWarnings(rec) ==
  IF Len(rec.news.topStoriesPast3d) < TOP_NEWS_N
  THEN {<<WarnFewStories>>, <<WarnGdeltFailed>>} ELSE {<<>>}

\* C11: the warnings of a returned record are a function of the outcomes of
\* its fields, listed in the fixed order of evaluation, and the confidence is
\* 1.0 less the penalties of exactly those warnings; so two calls with the
\* same outcomes give the same confidence and the same warnings.
C11_Deterministic ==
  Returned =>
    /\ \E news \in NewsWarnings(call.result) :
         call.result.quality.warnings = WarningsInOrder(call.result, news)
    /\ call.result.quality.confidence
         = Clamp(100 - PenaltySum(call.result.quality.warnings, 1))

\* A record with the leaders, the political system and the legislature
\* controller missing, proxy trends and a failed news fetch.
C11_Witness ==
  /\ Returned
  /\ call.result.quality.warnings
       = <<WarnLeaders, WarnPoliticalSystem, WarnLegislature, WarnProxyTrends, WarnGdeltFailed>>
  /\ call.result.quality.confidence = 62

\* ---------------------------------------------------------------- claims on the run of main

\* C12: the records of a run are those of the input countries, one for each,
\* in the order of COUNTRIES, also in the file that is written.
C12_InputOrder ==
  /\ Len(out) <= Len(COUNTRIES)
  /\ \A i \in 1..Len(out) :
       /\ out[i].country = COUNTRIES[i].country
       /\ out[i].iso2 = COUNTRIES[i].iso2
  /\ pc \in {"write", "done"} => Len(out) = Len(COUNTRIES)
  /\ pc = "done" => file.countries = out

\* A written file whose two records came out of different source outcomes.
C12_Witness ==
  /\ pc = "done"
  /\ Len(file.countries) = Len(COUNTRIES)
  /\ file.countries[2].country = "UAE"
  /\ file.countries[1].quality.warnings # file.countries[2].quality.warnings

\* C13: the output file changes in one step only, the write that follows
\* the last country and the creation of the directory, and it then holds
\* the records of all countries; nothing happens after that step or after
\* an abort, so the file is written at most once and an aborted run has
\* left it as it was.
C13_SingleWrite ==
  [][/\ pc \notin {"done", "aborted"}
     /\ file' # file =>
          /\ pc = "write" /\ pc' = "done"
          /\ Len(out) = Len(COUNTRIES)
          /\ file' = [countries |-> out]
     /\ pc' = "done" => file' = [countries |-> out]
     /\ pc' = "aborted" => file' = file]_vars

\* A run that aborted after its first country, with no file written.
C13_Witness ==
  /\ pc = "aborted"
  /\ Len(out) = 1
  /\ file = NoFile

\* ---------------------------------------------------------------- claims on the news

\* The names and aliases of the countries, as tokens of a headline.
CountryNameTokens ==
  { <<"u","k","r","a","i","n","e">>, <<"u","a","e">>,
    <<"u","n","i","t","e","d">>, <<"a","r","a","b">>, <<"e","m","i","r","a","t","e","s">> }

\* The topic key of a headline: punctuation stripped, lowercased, the
\* country's names and the stopwords removed, the first six tokens kept.
TopicKey(title) ==
  LET words == Split(KeepWordChars(title), 1, <<>>)
      lowered == [k \in 1..Len(words) |-> Lower(words[k])]
      kept == SelectSeq(lowered, LAMBDA t : t \notin stop \cup CountryNameTokens)
  IN Prefix(kept, 6)

\* C14 as stated: no two of the top stories of a record share a topic key.
C14_TopStoriesDistinct ==
  Returned =>
    \A i, j \in 1..Len(call.result.news.topStoriesPast3d) :
      i # j => TopicKey(call.result.news.topStoriesPast3d[i].title)
                 # TopicKey(call.result.news.topStoriesPast3d[j].title)

\* ---------------------------------------------------------------- claims on the party control

IsLegWinnerCall == call.fn = "get_last_legislative_election_winner"

\* The most recent past election row of the response carries a winner.
RowCarriesWinner(data) ==
  Bindings(data) # <<>> /\ WdStr(Bindings(data)[1], "winnerLabel") # ""

\* C15: get_last_legislative_election_winner returns status ok with the
\* winner as value exactly when the most recent past election row carries a
\* winner, with notes that say the control is approximated from the last
\* election winner; otherwise it returns status unknown with an empty value;
\* it never estimates.
C15_LegislatureSingleStrategy ==
  IsLegWinnerCall =>
    /\ call.result.status \in {"ok", "unknown"}
    /\ (call.result.status = "ok") <=> RowCarriesWinner(call.data)
    /\ RowCarriesWinner(call.data) =>
         /\ call.result.value = Bindings(call.data)[1].winnerLabel
         /\ call.result.notes
              = "Legislature control approximated from last national election winner (Wikidata P1346)."
    /\ ~RowCarriesWinner(call.data) => call.result.value = ""

\* The winner of the last election is returned.
C15_Witness ==
  /\ IsLegWinnerCall
  /\ RowCarriesWinner(call.data)
  /\ call.result.status = "ok"
  /\ call.result.value = "Unity Party"

\* The bodies of the legislature entries of a partyControl list.
LegislatureEntryBodies(party_control) ==
  [k \in 1..(Len(party_control) - 1) |-> party_control[k + 1].body]

\* C16: the partyControl list of a returned record starts with the one
\* executive entry, which carries the executive controller, and goes on with
\* one entry per legislative body the government query named, or with the
\* single entry "Legislature" when it named none; so it has at least two
\* entries, and every legislature entry carries legislatureControlBasis.
C16_PartyControlLayout ==
  Returned =>
    LET party_control == call.result.government.partyControl
        bodies == LegislatureEntryBodies(party_control)
    IN /\ Len(party_control) >= 2
       /\ party_control[1].body = "Executive"
       /\ party_control[1].controller = b.gov.executiveControllerParty
       /\ \A k \in 1..Len(bodies) : bodies[k] # "Executive"
       /\ \A j, k \in 1..Len(bodies) : j # k => bodies[j] # bodies[k]
       /\ bodies = (IF b.gov.legislatureBodies = <<>> THEN <<"Legislature">>
                    ELSE b.gov.legislatureBodies)
       /\ \A k \in 2..Len(party_control) :
            party_control[k].controller = call.result.elections.legislatureControlBasis

\* A record of a country with two legislative bodies, and one of a country
\* with none known.
C16_Witness ==
  /\ Returned
  /\ Len(call.result.government.partyControl) = 3
  /\ call.result.government.partyControl[2].body = "National Assembly"
  /\ call.result.government.partyControl[3].body = "Senate"

C16_WitnessPlaceholder ==
  /\ Returned
  /\ b.gov.legislatureBodies = <<>>
  /\ call.result.government.partyControl[2].body = "Legislature"

\* ---------------------------------------------------------------- claims on failures

IsBuildCall == call.fn = "build_country"

\* The source answered as it does when nothing fails; it gave the failure
\* marker None.
Answered(key) == call.r[key] = Nominal[key]
GaveNone(key) ==
  IF key = "wiki" THEN call.r[key] = <<NoResponse, NoResponse>> ELSE call.r[key] = NoResponse

\* No source of the call gave anything but an answer or the failure marker.
OnlyFailureMarkers ==
  call.r.gdelt_trends # MalformedArticles /\ call.r.gdelt_news # MalformedArticles

\* The record of the same call when every source answers.
NominalRecord ==
  build_country(COUNTRIES[call.k].country, COUNTRIES[call.k].iso2,
                call.tables.pr, call.tables.cl, Nominal)

\* C17: when sources give the failure marker, build_country still returns a
\* record; every structured field fed by a failed source has a status other
\* than ok and the description and the stories of a failed source are
\* empty; every field whose sources answered is what it is when no source
\* fails.
C17_FailuresStayLocal ==
  (IsBuildCall /\ OnlyFailureMarkers) =>
    /\ ~call.raised
    /\ LET rec == call.result
           nom == NominalRecord
       IN /\ GaveNone("wiki") => rec.description.summary = ""
          /\ GaveNone("qid") =>
               /\ rec.government.politicalSystem.status = "unknown"
               /\ rec.government.partyControl[1].controller.status = "unknown"
               /\ rec.elections.nextNationalElection.status = "unknown"
               /\ rec.elections.legislatureControlBasis.status = "unknown"
          /\ GaveNone("polsys") => rec.government.politicalSystem.status # "ok"
          /\ GaveNone("gov") =>
               /\ rec.government.partyControl[1].controller.status # "ok"
               /\ rec.government.leaders = <<>>
          /\ GaveNone("upcoming") => rec.elections.nextNationalElection.status # "ok"
          /\ GaveNone("leg") =>
               /\ rec.elections.legislatureControlBasis.status # "ok"
               /\ \A c \in 2..Len(rec.government.partyControl) :
                    rec.government.partyControl[c].controller.status # "ok"
          /\ GaveNone("gdelt_news") => rec.news.topStoriesPast3d = <<>>
          /\ Answered("wiki") => rec.description = nom.description
          /\ (Answered("qid") /\ Answered("polsys")) =>
               rec.government.politicalSystem = nom.government.politicalSystem
          /\ (Answered("qid") /\ Answered("gov")) =>
               /\ rec.government.leaders = nom.government.leaders
               /\ rec.government.partyControl[1] = nom.government.partyControl[1]
          /\ (Answered("qid") /\ Answered("polsys") /\ Answered("upcoming")) =>
               rec.elections.nextNationalElection = nom.elections.nextNationalElection
          /\ (Answered("qid") /\ Answered("leg")) =>
               rec.elections.legislatureControlBasis = nom.elections.legislatureControlBasis
          /\ rec.politicalFreedomRating = nom.politicalFreedomRating
          /\ Answered("trends") => rec.trends = nom.trends
          /\ Answered("gdelt_news") => rec.news = nom.news
          /\ Answered("us") => rec.usInterest = nom.usInterest

\* The political-system, upcoming-election and news sources failed, the
\* others answered, and the record is there with the legislature controller
\* resolved.
C17_Witness ==
  /\ IsBuildCall /\ OnlyFailureMarkers /\ ~call.raised
  /\ GaveNone("polsys") /\ GaveNone("upcoming") /\ GaveNone("gdelt_news")
  /\ Answered("qid") /\ Answered("leg") /\ Answered("gov")
  /\ call.result.elections.legislatureControlBasis.status = "ok"
  /\ call.result.elections.nextNationalElection.status = "unknown"

\* ---------------------------------------------------------------- claims on reasons

\* A result carries a reason exactly when its status is not ok.
ReasonIffNotOk(f) == (f.status # "ok") <=> ("reason" \in DOMAIN f /\ f.reason # "")

\* The results built by field_value in a record follow ReasonIffNotOk.
StructuredReasons(rec) ==
  /\ ReasonIffNotOk(rec.government.politicalSystem)
  /\ \A k \in 1..Len(rec.government.partyControl) :
       ReasonIffNotOk(rec.government.partyControl[k].controller)
  /\ ReasonIffNotOk(rec.elections.nextNationalElection)
  /\ "internalElections" \in DOMAIN rec.elections.nextNationalElection
       => ReasonIffNotOk(rec.elections.nextNationalElection.internalElections)
  /\ ReasonIffNotOk(rec.elections.legislatureControlBasis)

IsGovernmentCall == call.fn = "get_government_snapshot"

\* The first non-empty value of a column in the rows, "" when there is none.
RECURSIVE FirstLabel(_, _, _)
FirstLabel(rows, key, k) ==
  IF k > Len(rows) THEN ""
  ELSE IF WdStr(rows[k], key) # "" THEN rows[k][key]
  ELSE FirstLabel(rows, key, k + 1)

\* C19: the executive controller is the party of the head of government
\* with status ok when the rows name one, whatever the party of the head of
\* state; otherwise the party of the head of state with status computed and
\* the reason that says so; otherwise unknown with an empty value.
C19_ExecutiveChain ==
  IsGovernmentCall =>
    LET hog_party == FirstLabel(Bindings(call.data), "hogPartyLabel", 1)
        hos_party == FirstLabel(Bindings(call.data), "hosPartyLabel", 1)
        controller == call.result.executiveControllerParty
    IN /\ hog_party # "" =>
            /\ controller.status = "ok"
            /\ controller.value = hog_party
            /\ "reason" \notin DOMAIN controller
       /\ (hog_party = "" /\ hos_party # "") =>
            /\ controller.status = "computed"
            /\ controller.value = hos_party
            /\ controller.reason = "head_of_government_party_missing_used_head_of_state_party"
       /\ (hog_party = "" /\ hos_party = "") =>
            /\ controller.status = "unknown"
            /\ controller.value = ""

\* Both leaders have a party, not the same one, and the controller is the
\* party of the head of government.
C19_Witness ==
  /\ IsGovernmentCall
  /\ FirstLabel(Bindings(call.data), "hosPartyLabel", 1) = "Reform Party"
  /\ call.result.executiveControllerParty.status = "ok"
  /\ call.result.executiveControllerParty.value = "Unity Party"

\* The fallback to the party of the head of state.
C19_WitnessComputed ==
  /\ IsGovernmentCall
  /\ call.result.executiveControllerParty.status = "computed"
  /\ call.result.executiveControllerParty.value = "Reform Party"

\* Some row names this person in nameKey with this party in partyKey.
RowOfPerson(rows, nameKey, partyKey, name, party) ==
  \E k \in 1..Len(rows) : WdStr(rows[k], nameKey) = name /\ WdStr(rows[k], partyKey) = party

\* C20 as stated: the party of each leader entry is the party some row
\* gives for that same person, and so is the party the executive controller
\* takes from a leader.
C20_PartyOfSamePerson ==
  IsGovernmentCall =>
    LET rows == Bindings(call.data)
        leaders == call.result.leaders
        controller == call.result.executiveControllerParty
    IN /\ \A k \in 1..Len(leaders) :
            /\ leaders[k].title = "Head of State" =>
                 RowOfPerson(rows, "hosLabel", "hosPartyLabel", leaders[k].name, leaders[k].party)
            /\ leaders[k].title = "Head of Government" =>
                 RowOfPerson(rows, "hogLabel", "hogPartyLabel", leaders[k].name, leaders[k].party)
       /\ \A k \in 1..Len(leaders) :
            /\ (controller.status = "ok" /\ leaders[k].title = "Head of Government") =>
                 RowOfPerson(rows, "hogLabel", "hogPartyLabel", leaders[k].name, controller.value)
            /\ (controller.status = "computed" /\ leaders[k].title = "Head of State") =>
                 RowOfPerson(rows, "hosLabel", "hosPartyLabel", leaders[k].name, controller.value)

====
